---- MODULE Spec2Model ----
(***************************************************************************)
(* A model of the file-replacement engine of source/installer.py:         *)
(* _deleteFileGroupOrFail with _revertGroupDelete, tryRemoveFile,         *)
(* tryCopyFile, and the tree walkers copyProgramFiles,                    *)
(* removeOldProgramFiles and removeOldLibFiles.                           *)
(*                                                                         *)
(* Every file-system call the code makes is one step of the model; a call *)
(* that the operating system may refuse (a locked file, an I/O error) has *)
(* a succeeding and a failing outcome.  tempfile.mkdtemp and              *)
(* _createEmptyTempFileForDeletingFile are taken to succeed.              *)
(***************************************************************************)
EXTENDS Integers, Sequences, FiniteSets, TLC

(* ------------------------------ bounds -------------------------------- *)
\* Number of distinct relative paths under the install directory.
MaxFiles == 3
\* Largest retry limit (numTries / numRetries) explored.
MaxTries == 3
\* Number of successive calls of _deleteFileGroupOrFail on one directory.
MaxCalls == 2

Files == 1..MaxFiles
\* A path holds no file.
Absent == 0
\* The zero-length placeholder _createEmptyTempFileForDeletingFile makes.
EmptyFile == -1
\* The content a file has when the installer starts: distinct per path.
Content(f) == f

VARIABLES
    op,                 \* which function of installer.py is running
    pc,                 \* position inside that function
    result,             \* "running", "returned", or the exception that left it
    faults,             \* file-system steps that the OS refused so far (history)
    \* _deleteFileGroupOrFail --------------------------------------------
    installDir,         \* relative path -> content or Absent, under installDir
    tempDir,            \* relative path -> content or Absent, under tempDir
    tempDirExists,      \* the directory made by tempfile.mkdtemp() exists
    relativeFilepaths,  \* the group passed to the call
    remaining,          \* members of the group the for loop has not reached
    filepath,           \* the loop variable
    count,              \* the retry loop variable
    numTries,           \* the retry limit
    revertTodo,         \* entries of tempDir that rglob has yet to yield
    pending,            \* how the try block ended, while finally runs
    orig,               \* installDir at the start of the call (history)
    attempts,           \* os.remove(originalPath) calls per path (history)
    removeFails,        \* failed os.remove(originalPath) calls per path (history)
    copies,             \* shutil.copyfile calls in this call (history)
    history,            \* the calls of _deleteFileGroupOrFail that have ended (history)
    \* tryRemoveFile, tryCopyFile ---------------------------------------
    atPath,             \* what is at path (tryRemoveFile) or destFilePath (tryCopyFile)
    atTempPath,         \* what is at tempPath
    rebootOK,           \* tryRemoveFile's rebootOK argument
    numRetries,         \* tryRemoveFile's numRetries argument
    deleteAttempts,     \* deletions of tempPath tried (history)
    deleteFails,        \* deletions of tempPath that failed (history)
    sleeps,             \* time.sleep(retryInterval) calls (history)
    moveFileExCalls,    \* the paths handed to winKernel.moveFileEx, in order (history)
    copyAttempts,       \* CopyFileW calls (history)
    origAtPath,         \* atPath when the function was called (history)
    \* removeOldLibFiles, removeOldProgramFiles, copyProgramFiles ----------
    dirs,               \* the directories of the tree walked, as paths from its root
    files,              \* the files of the tree walked, as paths from its root
    leftovers,          \* files with an entry under a temporary name beside them
    walkTodo,           \* the directories os.walk has yet to yield, in order
    topDirsTodo,        \* the rest of ("lib", "lib64", "libArm64")
    parent,             \* the directory os.walk yielded last
    subdirs,            \* its subdirectory names the loop has yet to reach
    fileNames,          \* its file names the loop has yet to reach
    rmCalls,            \* paths handed to os.rmdir, os.remove, rmtree (history)
    tryRemoveCalls,     \* paths handed to tryRemoveFile (history)
    copyCalls,          \* source paths handed to tryCopyFile (history)
    warnings,           \* paths whose failure was logged (history)
    detectUserConfig,   \* copyProgramFiles' flag: the first directory is yet to come
    destDirs,           \* copyProgramFiles: the directories under destPath
    destFiles,          \* copyProgramFiles: the files under destPath
    copied,             \* copyProgramFiles: the files under destPath copied from the source
    \* _deleteKeyAndSubkeys ------------------------------------------------
    keys,               \* the registry keys that exist, as paths below the key deleted
    stack,              \* the active calls: the key each has open and its index i
    deletedKeys,        \* the keys winreg.DeleteKey has deleted, in order (history)
    \* install -------------------------------------------------------------
    installPc,          \* the statement of install() that runs or is next
    executed,           \* the functions install() has called, in order (history)
    prevInstallPath     \* getInstallPath(noDefault=True) found an installation

groupVars == <<installDir, tempDir, tempDirExists, relativeFilepaths, remaining,
               filepath, count, numTries, revertTodo, pending, orig, attempts,
               removeFails, copies, history>>

fileVars == <<atPath, atTempPath, rebootOK, numRetries, deleteAttempts,
              deleteFails, sleeps, moveFileExCalls, copyAttempts, origAtPath>>

walkVars == <<dirs, files, leftovers, walkTodo, topDirsTodo, parent, subdirs,
              fileNames, rmCalls, tryRemoveCalls, copyCalls, warnings,
              detectUserConfig, destDirs, destFiles, copied>>

regVars == <<keys, stack, deletedKeys>>

installVars == <<installPc, executed, prevInstallPath>>

vars == <<op, pc, result, faults, groupVars, fileVars, walkVars, regVars,
          installVars>>

(* ===================== _deleteFileGroupOrFail ========================== *)

\* The install directory the installer may find: any subset of the paths
\* exists, each with its own content.
InstallDirs == { [f \in Files |-> IF f \in S THEN Content(f) ELSE Absent] : S \in SUBSET Files }

EmptyDir == [f \in Files |-> Absent]
Zero == [f \in Files |-> 0]

\* No tree is being walked.
WalkIdle ==
    /\ dirs = {}
    /\ files = {}
    /\ leftovers = {}
    /\ walkTodo = <<>>
    /\ topDirsTodo = <<>>
    /\ parent = <<>>
    /\ subdirs = <<>>
    /\ fileNames = <<>>
    /\ rmCalls = {}
    /\ tryRemoveCalls = {}
    /\ copyCalls = {}
    /\ warnings = {}
    /\ detectUserConfig = FALSE
    /\ destDirs = {}
    /\ destFiles = {}
    /\ copied = {}

\* _deleteKeyAndSubkeys is not running.
RegIdle ==
    /\ keys = {}
    /\ stack = <<>>
    /\ deletedKeys = <<>>

\* The function is called on its own, not from install().
InstallIdle ==
    /\ installPc = "none"
    /\ executed = <<>>
    /\ prevInstallPath = FALSE

\* The single-file functions are not running.
FileIdle ==
    /\ atPath = Absent
    /\ atTempPath = Absent
    /\ rebootOK = FALSE
    /\ numRetries = 0
    /\ deleteAttempts = 0
    /\ deleteFails = 0
    /\ sleeps = 0
    /\ moveFileExCalls = <<>>
    /\ copyAttempts = 0
    /\ origAtPath = Absent

InitGroup ==
    /\ RegIdle
    /\ InstallIdle
    /\ FileIdle
    /\ WalkIdle
    /\ op = "deleteFileGroupOrFail"
    /\ pc = "mkdtemp"
    /\ result = "running"
    /\ faults = {}
    /\ installDir \in InstallDirs
    /\ tempDir = EmptyDir
    /\ tempDirExists = FALSE
    /\ relativeFilepaths \in SUBSET Files
    /\ remaining = relativeFilepaths
    /\ filepath = 0
    /\ count = 0
    /\ numTries \in 1..MaxTries
    /\ revertTodo = {}
    /\ pending = "none"
    /\ orig = installDir
    /\ attempts = Zero
    /\ removeFails = Zero
    /\ copies = 0
    /\ history = <<>>

\* tempDir = tempfile.mkdtemp()
MkTempDir ==
    /\ op = "deleteFileGroupOrFail" /\ pc = "mkdtemp"
    /\ tempDirExists' = TRUE
    /\ pc' = "for"
    /\ UNCHANGED <<fileVars, walkVars, regVars, installVars>>
    /\ UNCHANGED <<op, result, faults, installDir, tempDir, relativeFilepaths,
                   remaining, filepath, count, numTries, revertTodo, pending,
                   orig, attempts, removeFails, copies, history>>

\* ForNextFile with the pathlib.Path(originalPath).exists() test inverted.
ForInvertedBug ==
    /\ op = "deleteFileGroupOrFail" /\ pc = "for"
    /\ \E f \in remaining :
        /\ remaining' = remaining \ {f}
        /\ filepath' = f
        /\ pc' = IF installDir[f] # Absent THEN "for" ELSE "copyfile"
    /\ UNCHANGED <<fileVars, walkVars, regVars, installVars>>
    /\ UNCHANGED <<op, result, faults, installDir, tempDir, tempDirExists,
                   relativeFilepaths, count, numTries, revertTodo, pending,
                   orig, attempts, removeFails, copies, history>>

\* ForNextFile without the pathlib.Path(originalPath).exists() test.
ForSkipBug ==
    /\ op = "deleteFileGroupOrFail" /\ pc = "for"
    /\ \E f \in remaining :
        /\ remaining' = remaining \ {f}
        /\ filepath' = f
        /\ pc' = "copyfile"
    /\ UNCHANGED <<fileVars, walkVars, regVars, installVars>>
    /\ UNCHANGED <<op, result, faults, installDir, tempDir, tempDirExists,
                   relativeFilepaths, count, numTries, revertTodo, pending,
                   orig, attempts, removeFails, copies, history>>

\* for filepath in relativeFilepaths: a path that does not exist is skipped.
\* The group is a set, so the loop may reach its members in any order.
ForNextFile ==
    /\ op = "deleteFileGroupOrFail" /\ pc = "for"
    /\ \E f \in remaining :
        /\ remaining' = remaining \ {f}
        /\ filepath' = f
        /\ pc' = IF installDir[f] = Absent THEN "for" ELSE "copyfile"
    /\ UNCHANGED <<fileVars, walkVars, regVars, installVars>>
    /\ UNCHANGED <<op, result, faults, installDir, tempDir, tempDirExists,
                   relativeFilepaths, count, numTries, revertTodo, pending,
                   orig, attempts, removeFails, copies, history>>

\* The for loop has run out of paths: the try block ends normally.
ForDone ==
    /\ op = "deleteFileGroupOrFail" /\ pc = "for"
    /\ remaining = {}
    /\ pending' = "returned"
    /\ pc' = "finally"
    /\ UNCHANGED <<fileVars, walkVars, regVars, installVars>>
    /\ UNCHANGED <<op, result, faults, installDir, tempDir, tempDirExists,
                   relativeFilepaths, remaining, filepath, count, numTries,
                   revertTodo, orig, attempts, removeFails, copies, history>>

\* pathlib.Path(tempPath).parent.mkdir(...); shutil.copyfile(originalPath, tempPath)
\* An OSError of either call is not caught: it leaves through finally.
BackupCopy ==
    /\ op = "deleteFileGroupOrFail" /\ pc = "copyfile"
    /\ copies' = copies + 1
    /\ \/ /\ tempDir' = [tempDir EXCEPT ![filepath] = installDir[filepath]]
          /\ count' = 1
          /\ pc' = "remove"
          /\ UNCHANGED <<faults, pending>>
       \/ /\ faults' = faults \cup {"copyfile"}
          /\ pending' = "OSError"
          /\ pc' = "finally"
          /\ UNCHANGED <<tempDir, count>>
    /\ UNCHANGED <<fileVars, walkVars, regVars, installVars>>
    /\ UNCHANGED <<op, result, installDir, tempDirExists, relativeFilepaths,
                   remaining, filepath, numTries, revertTodo, orig, attempts,
                   removeFails, history>>

\* RemoveOriginal with the retry loop running one pass too many.
RemoveOriginalBug ==
    /\ op = "deleteFileGroupOrFail" /\ pc = "remove"
    /\ attempts' = [attempts EXCEPT ![filepath] = @ + 1]
    /\ \/ /\ installDir' = [installDir EXCEPT ![filepath] = Absent]
          /\ pc' = "for"
          /\ UNCHANGED <<count, removeFails, faults>>
       \/ /\ removeFails' = [removeFails EXCEPT ![filepath] = @ + 1]
          /\ faults' = faults \cup {"remove"}
          /\ count' = count + 1
          /\ pc' = IF count <= numTries THEN "remove" ELSE "removeBackup"
          /\ UNCHANGED installDir
    /\ UNCHANGED <<fileVars, walkVars, regVars, installVars>>
    /\ UNCHANGED <<op, result, tempDir, tempDirExists, relativeFilepaths,
                   remaining, filepath, numTries, revertTodo, pending, orig,
                   copies, history>>

\* One pass of "for count in range(1, numTries + 1)": os.remove(originalPath).
\* Success breaks out of the retry loop; a failure is logged and, while
\* tries are left, retried after time.sleep(retryWaitInterval).
RemoveOriginal ==
    /\ op = "deleteFileGroupOrFail" /\ pc = "remove"
    /\ attempts' = [attempts EXCEPT ![filepath] = @ + 1]
    /\ \/ /\ installDir' = [installDir EXCEPT ![filepath] = Absent]
          /\ pc' = "for"
          /\ UNCHANGED <<count, removeFails, faults>>
       \/ /\ removeFails' = [removeFails EXCEPT ![filepath] = @ + 1]
          /\ faults' = faults \cup {"remove"}
          /\ IF count < numTries
                THEN count' = count + 1 /\ pc' = "remove"
                ELSE count' = count /\ pc' = "removeBackup"
          /\ UNCHANGED installDir
    /\ UNCHANGED <<fileVars, walkVars, regVars, installVars>>
    /\ UNCHANGED <<op, result, tempDir, tempDirExists, relativeFilepaths,
                   remaining, filepath, numTries, revertTodo, pending, orig,
                   copies, history>>

\* RemoveBackup leaving the backup of the file that could not be deleted in
\* tempDir, where _revertGroupDelete finds it.
RemoveBackupKept ==
    /\ op = "deleteFileGroupOrFail" /\ pc = "removeBackup"
    /\ \/ /\ revertTodo' = { f \in Files : tempDir[f] # Absent }
          /\ pc' = "revert"
          /\ UNCHANGED <<faults, pending>>
       \/ /\ faults' = faults \cup {"removeBackup"}
          /\ pending' = "OSError"
          /\ pc' = "finally"
          /\ UNCHANGED revertTodo
    /\ UNCHANGED <<fileVars, walkVars, regVars, installVars>>
    /\ UNCHANGED <<op, result, installDir, tempDir, tempDirExists,
                   relativeFilepaths, remaining, filepath, count, numTries,
                   orig, attempts, removeFails, copies, history>>

\* The retry loop's else branch: os.remove(tempPath) drops the backup of the
\* file that could not be deleted, then _revertGroupDelete is called.
\* An OSError of os.remove(tempPath) is not caught.
RemoveBackup ==
    /\ op = "deleteFileGroupOrFail" /\ pc = "removeBackup"
    /\ \/ /\ tempDir' = [tempDir EXCEPT ![filepath] = Absent]
          /\ revertTodo' = { f \in Files : tempDir[f] # Absent /\ f # filepath }
          /\ pc' = "revert"
          /\ UNCHANGED <<faults, pending>>
       \/ /\ faults' = faults \cup {"removeBackup"}
          /\ pending' = "OSError"
          /\ pc' = "finally"
          /\ UNCHANGED <<tempDir, revertTodo>>
    /\ UNCHANGED <<fileVars, walkVars, regVars, installVars>>
    /\ UNCHANGED <<op, result, installDir, tempDirExists, relativeFilepaths,
                   remaining, filepath, count, numTries, orig, attempts,
                   removeFails, copies, history>>

\* RevertOne dropping the backup instead of moving it back.
RevertOneBug ==
    /\ op = "deleteFileGroupOrFail" /\ pc = "revert"
    /\ \E f \in revertTodo :
        /\ revertTodo' = revertTodo \ {f}
        /\ tempDir' = [tempDir EXCEPT ![f] = Absent]
        /\ UNCHANGED <<installDir, faults>>
    /\ UNCHANGED <<fileVars, walkVars, regVars, installVars>>
    /\ UNCHANGED <<op, pc, result, tempDirExists, relativeFilepaths, remaining,
                   filepath, count, numTries, pending, orig, attempts,
                   removeFails, copies, history>>

\* _revertGroupDelete: one pass of "for tempFile in rglob('*')":
\* os.replace(tempFile, originalPath); an OSError is logged and the loop goes on.
RevertOne ==
    /\ op = "deleteFileGroupOrFail" /\ pc = "revert"
    /\ \E f \in revertTodo :
        /\ revertTodo' = revertTodo \ {f}
        /\ \/ /\ installDir' = [installDir EXCEPT ![f] = tempDir[f]]
              /\ tempDir' = [tempDir EXCEPT ![f] = Absent]
              /\ UNCHANGED faults
           \/ /\ faults' = faults \cup {"restore"}
              /\ UNCHANGED <<installDir, tempDir>>
    /\ UNCHANGED <<fileVars, walkVars, regVars, installVars>>
    /\ UNCHANGED <<op, pc, result, tempDirExists, relativeFilepaths, remaining,
                   filepath, count, numTries, pending, orig, attempts,
                   removeFails, copies, history>>

\* _revertGroupDelete has returned: raise RetriableFailure(...)
RaiseRetriable ==
    /\ op = "deleteFileGroupOrFail" /\ pc = "revert"
    /\ revertTodo = {}
    /\ pending' = "RetriableFailure"
    /\ pc' = "finally"
    /\ UNCHANGED <<fileVars, walkVars, regVars, installVars>>
    /\ UNCHANGED <<op, result, faults, installDir, tempDir, tempDirExists,
                   relativeFilepaths, remaining, filepath, count, numTries,
                   revertTodo, orig, attempts, removeFails, copies, history>>

\* Finally without shutil.rmtree(tempDir).
FinallyNoCleanup ==
    /\ op = "deleteFileGroupOrFail" /\ pc = "finally"
    /\ result' = pending
    /\ pc' = "done"
    /\ UNCHANGED <<fileVars, walkVars, regVars, installVars>>
    /\ UNCHANGED <<op, faults, tempDir, tempDirExists, installDir,
                   relativeFilepaths, remaining, filepath, count, numTries,
                   revertTodo, pending, orig, attempts, removeFails, copies,
                   history>>

\* finally: shutil.rmtree(tempDir); its OSError is logged and ignored, and the
\* call then ends the way the try block ended.
Finally ==
    /\ op = "deleteFileGroupOrFail" /\ pc = "finally"
    /\ \/ /\ tempDirExists' = FALSE
          /\ tempDir' = EmptyDir
          /\ UNCHANGED faults
       \/ /\ faults' = faults \cup {"rmtree"}
          /\ UNCHANGED <<tempDir, tempDirExists>>
    /\ result' = pending
    /\ pc' = "done"
    /\ UNCHANGED <<fileVars, walkVars, regVars, installVars>>
    /\ UNCHANGED <<op, installDir, relativeFilepaths, remaining, filepath,
                   count, numTries, revertTodo, pending, orig, attempts,
                   removeFails, copies, history>>

\* The installer is run again after a call that returned normally (install()
\* and createPortableCopy() both start with this call): a fresh temp directory,
\* the same group, the directory as the last call left it.  A run after a call
\* that raised starts from a directory that InitGroup already covers.
CallAgain ==
    /\ op = "deleteFileGroupOrFail" /\ pc = "done"
    /\ result = "returned"
    /\ Len(history) + 1 < MaxCalls
    /\ history' = Append(history, [result |-> result, before |-> orig, after |-> installDir])
    /\ pc' = "mkdtemp"
    /\ result' = "running"
    /\ faults' = {}
    /\ tempDir' = EmptyDir
    /\ tempDirExists' = FALSE
    /\ remaining' = relativeFilepaths
    /\ filepath' = 0
    /\ count' = 0
    /\ revertTodo' = {}
    /\ pending' = "none"
    /\ orig' = installDir
    /\ attempts' = Zero
    /\ removeFails' = Zero
    /\ copies' = 0
    /\ UNCHANGED <<fileVars, walkVars, regVars, installVars>>
    /\ UNCHANGED <<op, installDir, relativeFilepaths, numTries>>

NextGroup ==
    \/ MkTempDir
    \/ ForNextFile
    \/ ForDone
    \/ BackupCopy
    \/ RemoveOriginal
    \/ RemoveBackup
    \/ RevertOne
    \/ RaiseRetriable
    \/ Finally
    \/ CallAgain

(* ============================ tryRemoveFile ============================ *)

\* _deleteFileGroupOrFail is not running.
GroupIdle ==
    /\ installDir = EmptyDir
    /\ tempDir = EmptyDir
    /\ tempDirExists = FALSE
    /\ relativeFilepaths = {}
    /\ remaining = {}
    /\ filepath = 0
    /\ count = 0
    /\ numTries = 0
    /\ revertTodo = {}
    /\ pending = "none"
    /\ orig = EmptyDir
    /\ attempts = Zero
    /\ removeFails = Zero
    /\ copies = 0
    /\ history = <<>>

\* tryRemoveFile(path, numRetries, retryInterval, rebootOK) is called on a path
\* that holds a file or (a stale listing) holds nothing.
InitRemove ==
    /\ RegIdle
    /\ InstallIdle
    /\ GroupIdle
    /\ WalkIdle
    /\ op = "tryRemoveFile"
    /\ pc = "createTemp"
    /\ result = "running"
    /\ faults = {}
    /\ atPath \in {Absent, Content(1)}
    /\ atTempPath = Absent
    /\ rebootOK \in BOOLEAN
    /\ numRetries \in 1..MaxTries
    /\ deleteAttempts = 0
    /\ deleteFails = 0
    /\ sleeps = 0
    /\ moveFileExCalls = <<>>
    /\ copyAttempts = 0
    /\ origAtPath = atPath

\* tempPath = _createEmptyTempFileForDeletingFile(dir=dirPath)
RemoveCreateTemp ==
    /\ op = "tryRemoveFile" /\ pc = "createTemp"
    /\ atTempPath' = EmptyFile
    /\ pc' = "replace"
    /\ UNCHANGED groupVars
    /\ UNCHANGED <<walkVars, regVars, installVars>>
    /\ UNCHANGED <<op, origAtPath, result, faults, atPath, rebootOK, numRetries,
                   deleteAttempts, deleteFails, sleeps, moveFileExCalls,
                   copyAttempts>>

\* RemoveRename going on to the delete loop when os.replace failed.
RemoveRenameIgnored ==
    /\ op = "tryRemoveFile" /\ pc = "replace"
    /\ \/ /\ atPath # Absent
          /\ atTempPath' = atPath
          /\ atPath' = Absent
          /\ UNCHANGED faults
       \/ /\ faults' = faults \cup {"replace"}
          /\ UNCHANGED <<atPath, atTempPath>>
    /\ pc' = "delete"
    /\ count' = 0
    /\ UNCHANGED <<installDir, tempDir, tempDirExists, relativeFilepaths,
                   remaining, filepath, numTries, revertTodo, pending, orig,
                   attempts, removeFails, copies, history>>
    /\ UNCHANGED <<walkVars, regVars, installVars>>
    /\ UNCHANGED <<op, result, origAtPath, rebootOK, numRetries, deleteAttempts,
                   deleteFails, sleeps, moveFileExCalls, copyAttempts>>

\* os.replace(path, tempPath); on WindowsError/IOError raise RetriableFailure.
\* The rename of a path that holds nothing always fails.
RemoveRename ==
    /\ op = "tryRemoveFile" /\ pc = "replace"
    /\ \/ /\ atPath # Absent
          /\ atTempPath' = atPath
          /\ atPath' = Absent
          /\ pc' = "delete"
          /\ UNCHANGED <<result, faults>>
       \/ /\ faults' = faults \cup {"replace"}
          /\ result' = "RetriableFailure"
          /\ pc' = "done"
          /\ UNCHANGED <<atPath, atTempPath>>
    /\ count' = 0
    /\ UNCHANGED <<installDir, tempDir, tempDirExists, relativeFilepaths,
                   remaining, filepath, numTries, revertTodo, pending, orig,
                   attempts, removeFails, copies, history>>
    /\ UNCHANGED <<walkVars, regVars, installVars>>
    /\ UNCHANGED <<op, origAtPath, rebootOK, numRetries, deleteAttempts, deleteFails,
                   sleeps, moveFileExCalls, copyAttempts>>

\* AfterRetries with the "if rebootOK" branch never taken.
AfterRetriesNoReboot == "replaceBack"

\* Where tryRemoveFile goes once "for count in range(numRetries)" is exhausted.
AfterRetries == IF rebootOK THEN "moveFileEx" ELSE "replaceBack"

\* RemoveDelete with the retry loop running one pass too many.
RemoveDeleteBug ==
    /\ op = "tryRemoveFile" /\ pc = "delete"
    /\ deleteAttempts' = deleteAttempts + 1
    /\ \/ /\ atTempPath' = Absent
          /\ result' = "returned"
          /\ pc' = "done"
          /\ UNCHANGED <<faults, deleteFails, sleeps, count>>
       \/ /\ faults' = faults \cup {"delete"}
          /\ deleteFails' = deleteFails + 1
          /\ sleeps' = sleeps + 1
          /\ count' = count + 1
          /\ pc' = IF count < numRetries THEN "delete" ELSE AfterRetries
          /\ UNCHANGED <<atTempPath, result>>
    /\ UNCHANGED <<installDir, tempDir, tempDirExists, relativeFilepaths,
                   remaining, filepath, numTries, revertTodo, pending, orig,
                   attempts, removeFails, copies, history>>
    /\ UNCHANGED <<walkVars, regVars, installVars>>
    /\ UNCHANGED <<op, origAtPath, atPath, rebootOK, numRetries, moveFileExCalls,
                   copyAttempts>>

\* One pass of "for count in range(numRetries)": delete tempPath and return,
\* or log the OSError and time.sleep(retryInterval).
RemoveDelete ==
    /\ op = "tryRemoveFile" /\ pc = "delete"
    /\ deleteAttempts' = deleteAttempts + 1
    /\ \/ /\ atTempPath' = Absent
          /\ result' = "returned"
          /\ pc' = "done"
          /\ UNCHANGED <<faults, deleteFails, sleeps, count>>
       \/ /\ faults' = faults \cup {"delete"}
          /\ deleteFails' = deleteFails + 1
          /\ sleeps' = sleeps + 1
          /\ count' = count + 1
          /\ pc' = IF count + 1 < numRetries THEN "delete" ELSE AfterRetries
          /\ UNCHANGED <<atTempPath, result>>
    /\ UNCHANGED <<installDir, tempDir, tempDirExists, relativeFilepaths,
                   remaining, filepath, numTries, revertTodo, pending, orig,
                   attempts, removeFails, copies, history>>
    /\ UNCHANGED <<walkVars, regVars, installVars>>
    /\ UNCHANGED <<op, origAtPath, atPath, rebootOK, numRetries, moveFileExCalls,
                   copyAttempts>>

\* if rebootOK: winKernel.moveFileEx(pathQualifier + tempPath, None,
\* MOVEFILE_DELAY_UNTIL_REBOOT); return unless it raised WindowsError.
RemoveMoveFileEx ==
    /\ op = "tryRemoveFile" /\ pc = "moveFileEx"
    /\ moveFileExCalls' = Append(moveFileExCalls, "tempPath")
    /\ \/ /\ result' = "returned"
          /\ pc' = "done"
          /\ UNCHANGED faults
       \/ /\ faults' = faults \cup {"moveFileEx"}
          /\ pc' = "replaceBack"
          /\ UNCHANGED result
    /\ UNCHANGED groupVars
    /\ UNCHANGED <<walkVars, regVars, installVars>>
    /\ UNCHANGED <<op, origAtPath, atPath, atTempPath, rebootOK, numRetries,
                   deleteAttempts, deleteFails, sleeps, copyAttempts>>

\* RemoveRenameBack copying the file to path and leaving tempPath in place.
RemoveRenameBackCopies ==
    /\ op = "tryRemoveFile" /\ pc = "replaceBack"
    /\ \/ /\ atPath' = atTempPath
          /\ UNCHANGED <<atTempPath, faults>>
       \/ /\ faults' = faults \cup {"replaceBack"}
          /\ UNCHANGED <<atPath, atTempPath>>
    /\ result' = "RetriableFailure"
    /\ pc' = "done"
    /\ UNCHANGED groupVars
    /\ UNCHANGED <<walkVars, regVars, installVars>>
    /\ UNCHANGED <<op, origAtPath, rebootOK, numRetries, deleteAttempts, deleteFails,
                   sleeps, moveFileExCalls, copyAttempts>>

\* os.replace(tempPath, path), any exception logged; raise RetriableFailure.
RemoveRenameBack ==
    /\ op = "tryRemoveFile" /\ pc = "replaceBack"
    /\ \/ /\ atPath' = atTempPath
          /\ atTempPath' = Absent
          /\ UNCHANGED faults
       \/ /\ faults' = faults \cup {"replaceBack"}
          /\ UNCHANGED <<atPath, atTempPath>>
    /\ result' = "RetriableFailure"
    /\ pc' = "done"
    /\ UNCHANGED groupVars
    /\ UNCHANGED <<walkVars, regVars, installVars>>
    /\ UNCHANGED <<op, origAtPath, rebootOK, numRetries, deleteAttempts, deleteFails,
                   sleeps, moveFileExCalls, copyAttempts>>

NextRemove ==
    \/ RemoveCreateTemp
    \/ RemoveRename
    \/ RemoveDelete
    \/ RemoveMoveFileEx
    \/ RemoveRenameBack

(* ============================= tryCopyFile ============================= *)

\* What the source file of tryCopyFile holds.
SourceContent == Content(2)

\* tryCopyFile(sourceFilePath, destFilePath): the destination holds an older
\* file or nothing.
InitCopy ==
    /\ RegIdle
    /\ InstallIdle
    /\ GroupIdle
    /\ WalkIdle
    /\ op = "tryCopyFile"
    /\ pc = "copy"
    /\ result = "running"
    /\ faults = {}
    /\ atPath \in {Absent, Content(1)}
    /\ atTempPath = Absent
    /\ rebootOK = FALSE
    /\ numRetries = 0
    /\ deleteAttempts = 0
    /\ deleteFails = 0
    /\ sleeps = 0
    /\ moveFileExCalls = <<>>
    /\ copyAttempts = 0
    /\ origAtPath = atPath

\* CopyFileW(sourceFilePath, destFilePath, False): the first is tried at once;
\* if it fails and nothing is at destFilePath, OSError is raised; otherwise
\* tempPath = _createEmptyTempFileForDeletingFile(...).
CopyFirst ==
    /\ op = "tryCopyFile" /\ pc = "copy"
    /\ copyAttempts' = copyAttempts + 1
    /\ \/ /\ atPath' = SourceContent
          /\ result' = "returned"
          /\ pc' = "done"
          /\ UNCHANGED <<faults, atTempPath>>
       \/ /\ faults' = faults \cup {"copy"}
          /\ IF atPath = Absent
                THEN /\ result' = "OSError"
                     /\ pc' = "done"
                     /\ UNCHANGED atTempPath
                ELSE /\ atTempPath' = EmptyFile
                     /\ pc' = "replace"
                     /\ UNCHANGED result
          /\ UNCHANGED atPath
    /\ UNCHANGED groupVars
    /\ UNCHANGED <<walkVars, regVars, installVars>>
    /\ UNCHANGED <<op, origAtPath, rebootOK, numRetries, deleteAttempts, deleteFails,
                   sleeps, moveFileExCalls>>

\* os.replace(destFilePath, tempPath); on failure raise RetriableFailure.
CopyRenameDest ==
    /\ op = "tryCopyFile" /\ pc = "replace"
    /\ \/ /\ atTempPath' = atPath
          /\ atPath' = Absent
          /\ pc' = "moveFileEx"
          /\ UNCHANGED <<faults, result>>
       \/ /\ faults' = faults \cup {"replace"}
          /\ result' = "RetriableFailure"
          /\ pc' = "done"
          /\ UNCHANGED <<atPath, atTempPath>>
    /\ UNCHANGED groupVars
    /\ UNCHANGED <<walkVars, regVars, installVars>>
    /\ UNCHANGED <<op, origAtPath, rebootOK, numRetries, deleteAttempts, deleteFails,
                   sleeps, moveFileExCalls, copyAttempts>>

\* CopyMoveFileEx returning once the placeholder is registered, without the
\* second CopyFileW.
CopyMoveFileExNoRetry ==
    /\ op = "tryCopyFile" /\ pc = "moveFileEx"
    /\ moveFileExCalls' = Append(moveFileExCalls, "tempPath")
    /\ \/ /\ result' = "returned"
          /\ UNCHANGED faults
       \/ /\ faults' = faults \cup {"moveFileEx"}
          /\ result' = "OSError"
    /\ pc' = "done"
    /\ UNCHANGED groupVars
    /\ UNCHANGED <<walkVars, regVars, installVars>>
    /\ UNCHANGED <<op, origAtPath, atPath, atTempPath, rebootOK, numRetries,
                   deleteAttempts, deleteFails, sleeps, copyAttempts>>

\* winKernel.moveFileEx(tempPath, None, MOVEFILE_DELAY_UNTIL_REBOOT): its
\* WindowsError is not caught here.
CopyMoveFileEx ==
    /\ op = "tryCopyFile" /\ pc = "moveFileEx"
    /\ moveFileExCalls' = Append(moveFileExCalls, "tempPath")
    /\ \/ /\ pc' = "copyAgain"
          /\ UNCHANGED <<faults, result>>
       \/ /\ faults' = faults \cup {"moveFileEx"}
          /\ result' = "OSError"
          /\ pc' = "done"
    /\ UNCHANGED groupVars
    /\ UNCHANGED <<walkVars, regVars, installVars>>
    /\ UNCHANGED <<op, origAtPath, atPath, atTempPath, rebootOK, numRetries,
                   deleteAttempts, deleteFails, sleeps, copyAttempts>>

\* The second CopyFileW(sourceFilePath, destFilePath, False); OSError if it fails.
CopyAgain ==
    /\ op = "tryCopyFile" /\ pc = "copyAgain"
    /\ copyAttempts' = copyAttempts + 1
    /\ \/ /\ atPath' = SourceContent
          /\ result' = "returned"
          /\ UNCHANGED faults
       \/ /\ faults' = faults \cup {"copyAgain"}
          /\ result' = "OSError"
          /\ UNCHANGED atPath
    /\ pc' = "done"
    /\ UNCHANGED groupVars
    /\ UNCHANGED <<walkVars, regVars, installVars>>
    /\ UNCHANGED <<op, origAtPath, atTempPath, rebootOK, numRetries, deleteAttempts,
                   deleteFails, sleeps, moveFileExCalls>>

NextCopy ==
    \/ CopyFirst
    \/ CopyRenameDest
    \/ CopyMoveFileEx
    \/ CopyAgain

(* ============================ tree walking ============================= *)

\* A directory listing as a sequence: the order the file system gives is some
\* fixed order of the entries.
RECURSIVE SeqOf(_)
SeqOf(S) == IF S = {} THEN <<>>
            ELSE LET x == CHOOSE y \in S : TRUE IN <<x>> \o SeqOf(S \ {x})

\* os.path.join(parent, name)
Join(dir, name) == Append(dir, name)

\* path lies under the directory dir, at any depth (path # dir).
IsUnder(path, dir) ==
    /\ Len(path) > Len(dir)
    /\ SubSeq(path, 1, Len(dir)) = dir

\* The entries of the directory dir among the paths of set.
ChildrenOf(dir, set) == { q \in set : Len(q) = Len(dir) + 1 /\ IsUnder(q, dir) }

\* The names os.walk lists for dir (subDirs, or files).
NamesIn(dir, set) == SeqOf({ q[Len(q)] : q \in ChildrenOf(dir, set) })

\* os.walk(top, topdown=False): every subdirectory's walk, then top itself.
\* The code removes only entries of the directory it was just handed, so the
\* listings os.walk took before descending are those of the tree as it is.
RECURSIVE WalkBottomUp(_, _)
RECURSIVE WalkAllBottomUp(_, _)
WalkAllBottomUp(tops, set) ==
    IF tops = <<>> THEN <<>>
    ELSE WalkBottomUp(Head(tops), set) \o WalkAllBottomUp(Tail(tops), set)
WalkBottomUp(top, set) ==
    WalkAllBottomUp(SeqOf(ChildrenOf(top, set)), set) \o <<top>>

\* What a call of tryRemoveFile(path, rebootOK=...) on an existing file leaves
\* behind, by the way it ends: raised (RetriableFailure), kept (the file is at
\* path), leftover (an entry under a temporary name stays in the directory).
RemoveOutcomes(reboot) ==
    { [raised |-> TRUE,  kept |-> TRUE,  leftover |-> TRUE ],    \* os.replace failed
      [raised |-> FALSE, kept |-> FALSE, leftover |-> FALSE],    \* deleted
      [raised |-> TRUE,  kept |-> TRUE,  leftover |-> FALSE],    \* renamed back
      [raised |-> TRUE,  kept |-> FALSE, leftover |-> TRUE ] }   \* rename back failed
    \cup IF reboot
         THEN { [raised |-> FALSE, kept |-> FALSE, leftover |-> TRUE] }  \* deferred
         ELSE {}

\* A directory with nothing in it, which os.rmdir can remove.
IsEmptyDir(dir) ==
    /\ ChildrenOf(dir, dirs) = {}
    /\ ChildrenOf(dir, files) = {}
    /\ ChildrenOf(dir, leftovers) = {}

(* ========================== removeOldLibFiles ========================== *)

\* Depth of the directory chains in the trees walked.
MaxDepth == 2

\* versionInfo.version, and the version of an older installation.
Version == "2025.1"
OldVersion == "2024.4"

TopDirs == <<"lib", "lib64", "libArm64">>

\* n nested directories named "sub".
Sub(n) == [i \in 1..n |-> "sub"]

\* The directory top/version with depth - 1 directories nested in it; nothing
\* for depth 0.
Chain(top, version, depth) == { <<top, version>> \o Sub(n) : n \in 0..(depth - 1) }

\* os.path.join(destPath, topDir, versionInfo.version)
CurrentLibPath(topDir) == <<topDir, Version>>

\* The install directory removeOldLibFiles may find: lib holds the current
\* version's directory and an older one, each with nested directories and a
\* library file in every directory; lib64 is empty; libArm64 does not exist.
InitLib ==
    /\ RegIdle
    /\ InstallIdle
    /\ GroupIdle
    /\ op = "removeOldLibFiles"
    /\ pc = "topDir"
    /\ result = "running"
    /\ faults = {}
    /\ atPath = Absent
    /\ atTempPath = Absent
    /\ rebootOK \in BOOLEAN
    /\ numRetries = 0
    /\ deleteAttempts = 0
    /\ deleteFails = 0
    /\ sleeps = 0
    /\ moveFileExCalls = <<>>
    /\ copyAttempts = 0
    /\ origAtPath = Absent
    /\ \E curDepth \in 0..MaxDepth, oldDepth \in 0..MaxDepth :
        /\ dirs = {<<"lib">>, <<"lib64">>}
                    \cup Chain("lib", Version, curDepth)
                    \cup Chain("lib", OldVersion, oldDepth)
        /\ files = { Join(d, "x.dll") : d \in { e \in dirs : e[1] = "lib" } }
    /\ leftovers = {}
    /\ walkTodo = <<>>
    /\ topDirsTodo = TopDirs
    /\ parent = <<>>
    /\ subdirs = <<>>
    /\ fileNames = <<>>
    /\ rmCalls = {}
    /\ tryRemoveCalls = {}
    /\ copyCalls = {}
    /\ warnings = {}
    /\ detectUserConfig = FALSE
    /\ destDirs = {}
    /\ destFiles = {}
    /\ copied = {}

libFrame == <<op, groupVars, fileVars, regVars, installVars, copyCalls, detectUserConfig, destDirs,
              destFiles, copied>>

\* for topDir in ("lib", "lib64", "libArm64"): os.walk(os.path.join(destPath,
\* topDir), topdown=False); a top directory that does not exist yields nothing.
LibNextTopDir ==
    /\ op = "removeOldLibFiles" /\ pc = "topDir"
    /\ topDirsTodo # <<>>
    /\ topDirsTodo' = Tail(topDirsTodo)
    /\ walkTodo' = IF <<Head(topDirsTodo)>> \in dirs
                      THEN WalkBottomUp(<<Head(topDirsTodo)>>, dirs)
                      ELSE <<>>
    /\ pc' = "walk"
    /\ UNCHANGED <<libFrame, result, faults, dirs, files, leftovers, parent,
                   subdirs, fileNames, rmCalls, tryRemoveCalls, warnings>>

\* The next (parent, subdirs, files) of os.walk; "if parent == currentLibPath:
\* continue" passes the current version's directory over.
LibWalkNext ==
    /\ op = "removeOldLibFiles" /\ pc = "walk"
    /\ walkTodo # <<>>
    /\ walkTodo' = Tail(walkTodo)
    /\ parent' = Head(walkTodo)
    /\ IF Head(walkTodo) = CurrentLibPath(Head(walkTodo)[1])
          THEN /\ pc' = "walk"
               /\ UNCHANGED <<subdirs, fileNames>>
          ELSE /\ subdirs' = NamesIn(Head(walkTodo), dirs)
               /\ fileNames' = NamesIn(Head(walkTodo), files)
               /\ pc' = "subdirs"
    /\ UNCHANGED <<libFrame, result, faults, dirs, files, leftovers,
                   topDirsTodo, rmCalls, tryRemoveCalls, warnings>>

\* One pass of "for d in subdirs": os.rmdir(path) unless path is
\* currentLibPath; an OSError (the directory is not empty, or is held) is logged.
LibRemoveSubdir ==
    /\ op = "removeOldLibFiles" /\ pc = "subdirs"
    /\ subdirs # <<>>
    /\ subdirs' = Tail(subdirs)
    /\ LET path == Join(parent, Head(subdirs)) IN
        IF path # CurrentLibPath(parent[1])
          THEN /\ rmCalls' = rmCalls \cup {path}
               /\ \/ /\ IsEmptyDir(path)
                     /\ dirs' = dirs \ {path}
                     /\ UNCHANGED <<faults, warnings>>
                  \/ /\ faults' = faults \cup {"rmdir"}
                     /\ warnings' = warnings \cup {path}
                     /\ UNCHANGED dirs
          ELSE UNCHANGED <<rmCalls, dirs, faults, warnings>>
    /\ UNCHANGED <<libFrame, pc, result, files, leftovers, walkTodo,
                   topDirsTodo, parent, fileNames, tryRemoveCalls>>

\* "for d in subdirs" is over: on to "for f in files".
LibSubdirsDone ==
    /\ op = "removeOldLibFiles" /\ pc = "subdirs"
    /\ subdirs = <<>>
    /\ pc' = "files"
    /\ UNCHANGED <<libFrame, result, faults, dirs, files, leftovers, walkTodo,
                   topDirsTodo, parent, subdirs, fileNames, rmCalls,
                   tryRemoveCalls, warnings>>

\* LibRemoveFile letting the RetriableFailure of tryRemoveFile leave
\* removeOldLibFiles.
LibRemoveFileAborts ==
    /\ op = "removeOldLibFiles" /\ pc = "files"
    /\ fileNames # <<>>
    /\ fileNames' = Tail(fileNames)
    /\ LET path == Join(parent, Head(fileNames)) IN
        /\ tryRemoveCalls' = tryRemoveCalls \cup {path}
        /\ \E o \in RemoveOutcomes(rebootOK) :
            /\ files' = IF o.kept THEN files ELSE files \ {path}
            /\ leftovers' = IF o.leftover THEN leftovers \cup {path} ELSE leftovers
            /\ faults' = IF o.raised THEN faults \cup {"tryRemoveFile"} ELSE faults
            /\ result' = IF o.raised THEN "RetriableFailure" ELSE result
            /\ pc' = IF o.raised THEN "done" ELSE pc
    /\ UNCHANGED <<libFrame, dirs, walkTodo, topDirsTodo, parent, subdirs,
                   rmCalls, warnings>>

\* One pass of "for f in files": tryRemoveFile(path, numRetries=2,
\* rebootOK=rebootOK); a RetriableFailure is logged.
LibRemoveFile ==
    /\ op = "removeOldLibFiles" /\ pc = "files"
    /\ fileNames # <<>>
    /\ fileNames' = Tail(fileNames)
    /\ LET path == Join(parent, Head(fileNames)) IN
        /\ tryRemoveCalls' = tryRemoveCalls \cup {path}
        /\ \E o \in RemoveOutcomes(rebootOK) :
            /\ files' = IF o.kept THEN files ELSE files \ {path}
            /\ leftovers' = IF o.leftover THEN leftovers \cup {path} ELSE leftovers
            /\ warnings' = IF o.raised THEN warnings \cup {path} ELSE warnings
            /\ faults' = IF o.raised THEN faults \cup {"tryRemoveFile"} ELSE faults
    /\ UNCHANGED <<libFrame, pc, result, dirs, walkTodo, topDirsTodo, parent,
                   subdirs, rmCalls>>

\* "for f in files" is over: back to os.walk.
LibFilesDone ==
    /\ op = "removeOldLibFiles" /\ pc = "files"
    /\ fileNames = <<>>
    /\ pc' = "walk"
    /\ UNCHANGED <<libFrame, result, faults, dirs, files, leftovers, walkTodo,
                   topDirsTodo, parent, subdirs, fileNames, rmCalls,
                   tryRemoveCalls, warnings>>

\* os.walk is exhausted: the next topDir.
LibWalkDone ==
    /\ op = "removeOldLibFiles" /\ pc = "walk"
    /\ walkTodo = <<>>
    /\ pc' = "topDir"
    /\ UNCHANGED <<libFrame, result, faults, dirs, files, leftovers, walkTodo,
                   topDirsTodo, parent, subdirs, fileNames, rmCalls,
                   tryRemoveCalls, warnings>>

\* The loop over the top directories is over: removeOldLibFiles returns.
LibReturn ==
    /\ op = "removeOldLibFiles" /\ pc = "topDir"
    /\ topDirsTodo = <<>>
    /\ result' = "returned"
    /\ pc' = "done"
    /\ UNCHANGED <<libFrame, faults, dirs, files, leftovers, walkTodo,
                   topDirsTodo, parent, subdirs, fileNames, rmCalls,
                   tryRemoveCalls, warnings>>

NextLib ==
    \/ LibNextTopDir
    \/ LibWalkNext
    \/ LibRemoveSubdir
    \/ LibSubdirsDone
    \/ LibRemoveFile
    \/ LibFilesDone
    \/ LibWalkDone
    \/ LibReturn

SpecLib == InitLib /\ [][NextLib]_vars

(* ============== copyProgramFiles, removeOldProgramFiles ================ *)

\* str.lower() on the names that occur in the trees walked.
LowerIdentity(name) == name

Lower(name) ==
    CASE name = "userConfig" -> "userconfig"
      [] name = "SystemConfig" -> "systemconfig"
      [] name = "libArm64" -> "libarm64"
      [] name = "NVDA.exe" -> "nvda.exe"
      [] OTHER -> name

\* The extension a file name ends with.
Extension(name) ==
    CASE name \in {"a.pyc"} -> ".pyc"
      [] name \in {"a.dll", "x.dll"} -> ".dll"
      [] name \in {"NVDA.exe"} -> ".exe"
      [] name \in {"readme.txt"} -> ".txt"
      [] OTHER -> ""

\* f.endswith((".pyc", ".pyo", ".pyd", ".dll", ".manifest"))
IsStale(name) == Extension(name) \in {".pyc", ".pyo", ".pyd", ".dll", ".manifest"}

\* The subdirectories of the root that copyProgramFiles leaves out.
CopyExcluded(name) == Lower(name) \in {"userconfig", "systemconfig"}

\* The subdirectories of the root that removeOldProgramFiles leaves out.
RemoveExcluded(name) ==
    Lower(name) \in {"userconfig", "systemconfig", "lib", "lib64", "libarm64"}

\* The root of the tree walked (sourcePath, or destPath).
Root == <<>>

\* os.path.join(destPath, "synthDrivers", "espeak-ng-data", "voices")
VoicesRoot == <<"synthDrivers", "espeak-ng-data", "voices">>

\* n nested directories named "userConfig".
Nested(n) == [i \in 1..n |-> "userConfig"]

\* The directory name under the root with depth - 1 directories nested in it,
\* each named "userConfig"; nothing for depth 0.
ChainFrom(name, depth) == { <<name>> \o Nested(n) : n \in 0..(depth - 1) }

\* The directories of a program tree: configuration directories (cfgs), a
\* documentation directory, lib, and the eSpeak voices.
ProgDirs(cfgs, cfgDepth, docDepth, hasLib, hasVoices) ==
    {Root}
      \cup UNION { ChainFrom(c, cfgDepth) : c \in cfgs }
      \cup ChainFrom("doc", docDepth)
      \cup (IF hasLib THEN {<<"lib">>} ELSE {})
      \cup (IF hasVoices
              THEN { SubSeq(VoicesRoot, 1, n) : n \in 1..Len(VoicesRoot) }
                     \cup {Join(VoicesRoot, "!v"), Join(VoicesRoot, "asia")}
              ELSE {})

\* Its files: the executable, a library and a text at the root, a compiled
\* Python file in every configuration and documentation directory, a library
\* in lib, and voice files.
ProgFiles(ds) ==
    {<<"NVDA.exe">>, <<"a.dll">>, <<"readme.txt">>}
      \cup { Join(d, "a.pyc") : d \in { e \in ds : e # Root /\ e[1] \notin {"lib", "synthDrivers"} } }
      \cup (IF <<"lib">> \in ds THEN {<<"lib", "x.dll">>} ELSE {})
      \cup (IF VoicesRoot \in ds
              THEN {Join(VoicesRoot, "en"), Join(Join(VoicesRoot, "!v"), "f1"),
                    Join(Join(VoicesRoot, "asia"), "zh")}
              ELSE {})

ProgTrees ==
    { ProgDirs(cfgs, cfgDepth, docDepth, hasLib, hasVoices) :
        cfgs \in SUBSET {"userConfig", "SystemConfig"},
        cfgDepth \in 1..MaxDepth, docDepth \in 0..MaxDepth,
        hasLib \in BOOLEAN, hasVoices \in BOOLEAN }

\* What a call of tryCopyFile leaves at destFilePath, by the way it ends and by
\* whether a file was there: the new file when it returns; after OSError what
\* was there (the first copy failed on no destination) or nothing (moveFileEx
\* or the second copy failed); after RetriableFailure what was there.
CopyOutcomes(destExists) ==
    { [raised |-> "none", dest |-> "new"] }
    \cup IF destExists
         THEN { [raised |-> "RetriableFailure", dest |-> "old"],
                [raised |-> "OSError", dest |-> "none"] }
         ELSE { [raised |-> "OSError", dest |-> "none"] }

progFrame == <<op, groupVars, fileVars, regVars, installVars, topDirsTodo, subdirs>>

\* copyProgramFiles(destPath) copies the tree under globalVars.appDir into an
\* empty destination directory or over an installation with the same layout;
\* removeOldProgramFiles(destPath) cleans the tree under destPath.
InitProg ==
    /\ RegIdle
    /\ InstallIdle
    /\ GroupIdle
    /\ FileIdle
    /\ op \in {"copyProgramFiles", "removeOldProgramFiles"}
    /\ pc = IF op = "copyProgramFiles" THEN "walk" ELSE "voices"
    /\ result = "running"
    /\ faults = {}
    /\ dirs \in ProgTrees
    /\ files = ProgFiles(dirs)
    /\ leftovers = {}
    /\ walkTodo = IF op = "copyProgramFiles" THEN <<Root>> ELSE <<>>
    /\ topDirsTodo = <<>>
    /\ parent = <<>>
    /\ subdirs = <<>>
    /\ fileNames = <<>>
    /\ rmCalls = {}
    /\ tryRemoveCalls = {}
    /\ copyCalls = {}
    /\ warnings = {}
    /\ detectUserConfig = (op = "copyProgramFiles")
    /\ \/ destDirs = {Root} /\ destFiles = {}
       \/ op = "copyProgramFiles" /\ destDirs = dirs /\ destFiles = files
    /\ copied = {}

\* The directories os.walk(top) goes on to after yielding dir with the
\* subdirectory names kept: they come before the directories already waiting.
Descend(dir, names, rest) == [i \in 1..Len(names) |-> Join(dir, names[i])] \o rest

CopyKept(name) == ~CopyExcluded(name)
RemoveKept(name) == ~RemoveExcluded(name)

\* One (curSourceDir, subDirs, files) of os.walk(sourcePath): on the first,
\* subDirs is cut down to the names that are not userconfig/systemconfig;
\* os.makedirs(curDestDir) if it is no directory, whose OSError is not caught.
CopyWalkNext ==
    /\ op = "copyProgramFiles" /\ pc = "walk"
    /\ walkTodo # <<>>
    /\ LET curSourceDir == Head(walkTodo)
           listed == NamesIn(curSourceDir, dirs)
           subDirs == IF detectUserConfig THEN SelectSeq(listed, CopyKept) ELSE listed
       IN  /\ parent' = curSourceDir
           /\ detectUserConfig' = FALSE
           /\ walkTodo' = Descend(curSourceDir, subDirs, Tail(walkTodo))
           /\ \/ /\ destDirs' = destDirs \cup {curSourceDir}
                 /\ fileNames' = NamesIn(curSourceDir, files)
                 /\ pc' = "files"
                 /\ UNCHANGED <<faults, result>>
              \/ /\ curSourceDir \notin destDirs
                 /\ faults' = faults \cup {"makedirs"}
                 /\ result' = "OSError"
                 /\ pc' = "done"
                 /\ UNCHANGED <<destDirs, fileNames>>
    /\ UNCHANGED <<progFrame, dirs, files, leftovers, rmCalls, tryRemoveCalls,
                   copyCalls, warnings, destFiles, copied>>

\* CopyOneFile logging an exception of tryCopyFile and going on with the
\* next file.
CopyOneFileLogged ==
    /\ op = "copyProgramFiles" /\ pc = "files"
    /\ fileNames # <<>>
    /\ fileNames' = Tail(fileNames)
    /\ LET f == Head(fileNames)
           path == Join(parent, f)
       IN  IF parent = Root /\ Lower(f) = "nvda.exe"
             THEN UNCHANGED <<copyCalls, destFiles, copied, faults, warnings>>
             ELSE /\ copyCalls' = copyCalls \cup {path}
                  /\ \E o \in CopyOutcomes(path \in destFiles) :
                      /\ destFiles' = IF o.dest = "none" THEN destFiles \ {path}
                                      ELSE destFiles \cup {path}
                      /\ copied' = IF o.dest = "new" THEN copied \cup {path} ELSE copied
                      /\ IF o.raised = "none"
                            THEN UNCHANGED <<faults, warnings>>
                            ELSE /\ faults' = faults \cup {"tryCopyFile"}
                                 /\ warnings' = warnings \cup {path}
    /\ UNCHANGED <<progFrame, pc, result, dirs, files, leftovers, walkTodo, parent,
                   rmCalls, tryRemoveCalls, detectUserConfig, destDirs>>

\* One pass of "for f in files": nvda.exe of the root is passed over; any
\* other file goes to tryCopyFile, whose exceptions are not caught.
CopyOneFile ==
    /\ op = "copyProgramFiles" /\ pc = "files"
    /\ fileNames # <<>>
    /\ fileNames' = Tail(fileNames)
    /\ LET f == Head(fileNames)
           path == Join(parent, f)
       IN  IF parent = Root /\ Lower(f) = "nvda.exe"
             THEN UNCHANGED <<copyCalls, destFiles, copied, faults, result, pc>>
             ELSE /\ copyCalls' = copyCalls \cup {path}
                  /\ \E o \in CopyOutcomes(path \in destFiles) :
                      /\ destFiles' = IF o.dest = "none" THEN destFiles \ {path}
                                      ELSE destFiles \cup {path}
                      /\ copied' = IF o.dest = "new" THEN copied \cup {path} ELSE copied
                      /\ IF o.raised = "none"
                            THEN UNCHANGED <<faults, result, pc>>
                            ELSE /\ faults' = faults \cup {"tryCopyFile"}
                                 /\ result' = o.raised
                                 /\ pc' = "done"
    /\ UNCHANGED <<progFrame, dirs, files, leftovers, walkTodo, parent, rmCalls,
                   tryRemoveCalls, warnings, detectUserConfig, destDirs>>

\* "for f in files" is over: back to os.walk.
CopyFilesDone ==
    /\ op = "copyProgramFiles" /\ pc = "files"
    /\ fileNames = <<>>
    /\ pc' = "walk"
    /\ UNCHANGED <<progFrame, result, faults, dirs, files, leftovers, walkTodo,
                   parent, fileNames, rmCalls, tryRemoveCalls, copyCalls,
                   warnings, detectUserConfig, destDirs, destFiles, copied>>

\* os.walk is exhausted: copyProgramFiles returns.
CopyReturn ==
    /\ op = "copyProgramFiles" /\ pc = "walk"
    /\ walkTodo = <<>>
    /\ result' = "returned"
    /\ pc' = "done"
    /\ UNCHANGED <<progFrame, faults, dirs, files, leftovers, walkTodo, parent,
                   fileNames, rmCalls, tryRemoveCalls, copyCalls, warnings,
                   detectUserConfig, destDirs, destFiles, copied>>

\* files = set(os.listdir(root)); files.discard("!v"): an OSError (no such
\* directory, or a refused listing) skips the voices altogether.
VoicesKept(name) == name # "!v"

VoicesList ==
    /\ op = "removeOldProgramFiles" /\ pc = "voices"
    /\ \/ /\ VoicesRoot \in dirs
          /\ fileNames' = SelectSeq(NamesIn(VoicesRoot, dirs \cup files), VoicesKept)
          /\ pc' = "voicesLoop"
          /\ UNCHANGED <<faults, walkTodo>>
       \/ /\ faults' = faults \cup {"listdir"}
          /\ walkTodo' = <<Root>>
          /\ pc' = "walk"
          /\ UNCHANGED fileNames
    /\ UNCHANGED <<progFrame, result, dirs, files, leftovers, parent, rmCalls,
                   tryRemoveCalls, copyCalls, warnings, detectUserConfig,
                   destDirs, destFiles, copied>>

\* One pass of "for fn in files": shutil.rmtree(fn) of a directory, os.remove(fn)
\* of a file; their OSError is not caught.
VoicesRemove ==
    /\ op = "removeOldProgramFiles" /\ pc = "voicesLoop"
    /\ fileNames # <<>>
    /\ fileNames' = Tail(fileNames)
    /\ LET fn == Join(VoicesRoot, Head(fileNames)) IN
        /\ rmCalls' = rmCalls \cup {fn}
        /\ \/ /\ dirs' = { d \in dirs : d # fn /\ ~IsUnder(d, fn) }
              /\ files' = { f \in files : f # fn /\ ~IsUnder(f, fn) }
              /\ UNCHANGED <<faults, result, pc>>
           \/ /\ faults' = faults \cup {"voices"}
              /\ result' = "OSError"
              /\ pc' = "done"
              /\ UNCHANGED <<dirs, files>>
    /\ UNCHANGED <<progFrame, leftovers, walkTodo, parent, tryRemoveCalls,
                   copyCalls, warnings, detectUserConfig, destDirs, destFiles,
                   copied>>

\* The voices are done: os.walk(destPath) starts.
VoicesDone ==
    /\ op = "removeOldProgramFiles" /\ pc = "voicesLoop"
    /\ fileNames = <<>>
    /\ walkTodo' = <<Root>>
    /\ pc' = "walk"
    /\ UNCHANGED <<progFrame, result, faults, dirs, files, leftovers, parent,
                   fileNames, rmCalls, tryRemoveCalls, copyCalls, warnings,
                   detectUserConfig, destDirs, destFiles, copied>>

\* One (curDestDir, subDirs, files) of os.walk(destPath): when curDestDir is
\* destPath, subDirs is cut down to the names that are not userconfig,
\* systemconfig, lib, lib64 or libarm64.
ProgWalkNext ==
    /\ op = "removeOldProgramFiles" /\ pc = "walk"
    /\ walkTodo # <<>>
    /\ LET curDestDir == Head(walkTodo)
           listed == NamesIn(curDestDir, dirs)
           subDirs == IF curDestDir = Root THEN SelectSeq(listed, RemoveKept) ELSE listed
       IN  /\ parent' = curDestDir
           /\ walkTodo' = Descend(curDestDir, subDirs, Tail(walkTodo))
           /\ fileNames' = NamesIn(curDestDir, files)
    /\ pc' = "files"
    /\ UNCHANGED <<progFrame, result, faults, dirs, files, leftovers, rmCalls,
                   tryRemoveCalls, copyCalls, warnings, detectUserConfig,
                   destDirs, destFiles, copied>>

\* One pass of "for f in files": a file with a stale extension goes to
\* tryRemoveFile(path); a RetriableFailure is logged.
ProgRemoveFile ==
    /\ op = "removeOldProgramFiles" /\ pc = "files"
    /\ fileNames # <<>>
    /\ fileNames' = Tail(fileNames)
    /\ LET path == Join(parent, Head(fileNames)) IN
        IF IsStale(Head(fileNames))
          THEN /\ tryRemoveCalls' = tryRemoveCalls \cup {path}
               /\ \E o \in RemoveOutcomes(FALSE) :
                   /\ files' = IF o.kept THEN files ELSE files \ {path}
                   /\ leftovers' = IF o.leftover THEN leftovers \cup {path} ELSE leftovers
                   /\ warnings' = IF o.raised THEN warnings \cup {path} ELSE warnings
                   /\ faults' = IF o.raised THEN faults \cup {"tryRemoveFile"} ELSE faults
          ELSE UNCHANGED <<tryRemoveCalls, files, leftovers, warnings, faults>>
    /\ UNCHANGED <<progFrame, pc, result, dirs, walkTodo, parent, rmCalls,
                   copyCalls, detectUserConfig, destDirs, destFiles, copied>>

\* "for f in files" is over: back to os.walk.
ProgFilesDone ==
    /\ op = "removeOldProgramFiles" /\ pc = "files"
    /\ fileNames = <<>>
    /\ pc' = "walk"
    /\ UNCHANGED <<progFrame, result, faults, dirs, files, leftovers, walkTodo,
                   parent, fileNames, rmCalls, tryRemoveCalls, copyCalls,
                   warnings, detectUserConfig, destDirs, destFiles, copied>>

\* os.walk is exhausted: removeOldProgramFiles returns.
ProgReturn ==
    /\ op = "removeOldProgramFiles" /\ pc = "walk"
    /\ walkTodo = <<>>
    /\ result' = "returned"
    /\ pc' = "done"
    /\ UNCHANGED <<progFrame, faults, dirs, files, leftovers, walkTodo, parent,
                   fileNames, rmCalls, tryRemoveCalls, copyCalls, warnings,
                   detectUserConfig, destDirs, destFiles, copied>>

NextProg ==
    \/ CopyWalkNext
    \/ CopyOneFile
    \/ CopyFilesDone
    \/ CopyReturn
    \/ VoicesList
    \/ VoicesRemove
    \/ VoicesDone
    \/ ProgWalkNext
    \/ ProgRemoveFile
    \/ ProgFilesDone
    \/ ProgReturn

SpecProg == InitProg /\ [][NextProg]_vars

(* ========================= _deleteKeyAndSubkeys ======================== *)

\* The most subkeys a key has, and the depth of the hierarchy below the key
\* that is deleted.
MaxSubkeys == 3
MaxKeyDepth == 2

\* The key hierarchy in which a key at depth d - 1 has the subkeys 1..width[d]:
\* the key passed to _deleteKeyAndSubkeys is the path <<>>.
KeyTree(width) ==
    UNION { { path \in [1..d -> 1..MaxSubkeys] : \A j \in 1..d : path[j] <= width[j] }
            : d \in 0..MaxKeyDepth }

\* _deleteKeyAndSubkeys(key, subkey) is called on a key with any such
\* hierarchy below it, or on a key that does not exist (a first install).
InitReg ==
    /\ InstallIdle
    /\ GroupIdle
    /\ FileIdle
    /\ WalkIdle
    /\ op = "deleteKeyAndSubkeys"
    /\ pc = "OpenKey"
    /\ result = "running"
    /\ faults = {}
    /\ \/ \E width \in [1..MaxKeyDepth -> 0..MaxSubkeys] : keys = KeyTree(width)
       \/ keys = {}
    /\ stack = << [key |-> <<>>, i |-> 0] >>
    /\ deletedKeys = <<>>

regFrame == <<op, faults, groupVars, fileVars, walkVars, installVars>>

\* The call that is running, and the subkeys of the key it has open, in the
\* order of their indexes: winreg.EnumKey(k, i) gives the (i+1)-th of the
\* subkeys that exist when it is called.
Top == stack[Len(stack)]
Subkeys(key) == SeqOf(ChildrenOf(key, keys))

\* with winreg.OpenKey(key, subkey, 0, KEY_WRITE | KEY_READ) as k: a key that
\* does not exist raises WindowsError.
RegOpenKey ==
    /\ op = "deleteKeyAndSubkeys" /\ pc = "OpenKey"
    /\ IF Top.key \in keys
          THEN pc' = "EnumKey" /\ UNCHANGED result
          ELSE pc' = "done" /\ result' = "WindowsError"
    /\ UNCHANGED <<regFrame, keys, stack, deletedKeys>>

\* One pass of "for i in itertools.count()": subkeyName = winreg.EnumKey(k, i)
\* and the recursive call _deleteKeyAndSubkeys(k, subkeyName); the
\* WindowsError of EnumKey, when there is no subkey of index i, ends the loop.
RegEnumKey ==
    /\ op = "deleteKeyAndSubkeys" /\ pc = "EnumKey"
    /\ IF Top.i < Len(Subkeys(Top.key))
          THEN /\ stack' = Append(stack, [key |-> Subkeys(Top.key)[Top.i + 1], i |-> 0])
               /\ pc' = "OpenKey"
          ELSE /\ pc' = "DeleteKey"
               /\ UNCHANGED stack
    /\ UNCHANGED <<regFrame, result, keys, deletedKeys>>

\* winreg.DeleteKey(k, ""): a key with subkeys cannot be deleted, and the
\* WindowsError is caught by no caller within _deleteKeyAndSubkeys.  When the
\* key is deleted the call returns; its caller goes on with the next i.
RegDeleteKey ==
    /\ op = "deleteKeyAndSubkeys" /\ pc = "DeleteKey"
    /\ IF Subkeys(Top.key) = <<>>
          THEN /\ keys' = keys \ {Top.key}
               /\ deletedKeys' = Append(deletedKeys, Top.key)
               /\ IF Len(stack) = 1
                     THEN /\ stack' = <<>>
                          /\ result' = "returned"
                          /\ pc' = "done"
                     ELSE /\ stack' = [SubSeq(stack, 1, Len(stack) - 1)
                                          EXCEPT ![Len(stack) - 1].i = @ + 1]
                          /\ pc' = "EnumKey"
                          /\ UNCHANGED result
          ELSE /\ result' = "WindowsError"
               /\ pc' = "done"
               /\ UNCHANGED <<keys, stack, deletedKeys>>
    /\ UNCHANGED regFrame

NextReg ==
    \/ RegOpenKey
    \/ RegEnumKey
    \/ RegDeleteKey

SpecReg == InitReg /\ [][NextReg]_vars

(* ============================== install ================================ *)

\* The functions install() calls after _deleteFileGroupOrFail, in the order of
\* its statements.
InstallSteps == <<"unregisterInstallation", "removeOldLoggedFiles",
                  "removeOldProgramFiles", "copyProgramFiles", "tryCopyFile",
                  "removeOldLibFiles", "registerInstallation",
                  "fixCOMRegistrations">>

\* The statement that follows the call of step when the call returns.
\* removeOldLoggedFiles is called only "if prevInstallPath".
AfterStep(step) ==
    CASE step = "unregisterInstallation" ->
            IF prevInstallPath THEN "removeOldLoggedFiles" ELSE "removeOldProgramFiles"
      [] step = "removeOldLoggedFiles" -> "removeOldProgramFiles"
      [] step = "removeOldProgramFiles" -> "copyProgramFiles"
      [] step = "copyProgramFiles" -> "for"
      [] step = "tryCopyFile" -> "removeOldLibFiles"
      [] step = "removeOldLibFiles" -> "registerInstallation"
      [] step = "registerInstallation" -> "fixCOMRegistrations"
      [] step = "fixCOMRegistrations" -> "returned"

\* The functions from which an exception can reach install(): removeOldLibFiles
\* catches the errors of its os.rmdir and tryRemoveFile calls.
CanRaise == { InstallSteps[i] : i \in 1..Len(InstallSteps) } \ {"removeOldLibFiles"}

\* install() is called: the install directory holds any subset of the main
\* executables; prevInstallPath = getInstallPath(noDefault=True).
InitInstall ==
    /\ RegIdle
    /\ FileIdle
    /\ WalkIdle
    /\ op = "install"
    /\ pc = "mkdtemp"
    /\ result = "running"
    /\ faults = {}
    /\ installDir \in InstallDirs
    /\ tempDir = EmptyDir
    /\ tempDirExists = FALSE
    /\ relativeFilepaths = Files
    /\ remaining = relativeFilepaths
    /\ filepath = 0
    /\ count = 0
    /\ numTries = MaxTries
    /\ revertTodo = {}
    /\ pending = "none"
    /\ orig = installDir
    /\ attempts = Zero
    /\ removeFails = Zero
    /\ copies = 0
    /\ history = <<>>
    /\ installPc = "sleep"
    /\ executed = <<>>
    /\ prevInstallPath \in BOOLEAN

\* time.sleep(1), then the call _deleteFileGroupOrFail(installDir,
\* _nvdaExes.union({...}), numTries=6, retryWaitInterval=0.5).
InstallDeleteGroup ==
    /\ op = "install" /\ installPc = "sleep"
    /\ op' = "deleteFileGroupOrFail"
    /\ installPc' = "deleteFileGroupOrFail"
    /\ executed' = Append(executed, "deleteFileGroupOrFail")
    /\ UNCHANGED <<pc, result, faults, groupVars, fileVars, walkVars, regVars,
                   prevInstallPath>>

\* InstallGroupRaised going on to unregisterInstallation.
InstallGroupRaisedIgnored ==
    /\ op = "deleteFileGroupOrFail" /\ pc = "done"
    /\ installPc = "deleteFileGroupOrFail"
    /\ result # "returned"
    /\ op' = "install"
    /\ installPc' = "unregisterInstallation"
    /\ result' = "running"
    /\ UNCHANGED <<pc, faults, groupVars, fileVars, walkVars, regVars,
                   executed, prevInstallPath>>

\* _deleteFileGroupOrFail raised: install() has no handler, the exception
\* leaves install().
InstallGroupRaised ==
    /\ op = "deleteFileGroupOrFail" /\ pc = "done"
    /\ installPc = "deleteFileGroupOrFail"
    /\ result # "returned"
    /\ op' = "install"
    /\ installPc' = "raised"
    /\ UNCHANGED <<pc, result, faults, groupVars, fileVars, walkVars, regVars,
                   executed, prevInstallPath>>

\* _deleteFileGroupOrFail returned: install() goes on.
InstallGroupReturned ==
    /\ op = "deleteFileGroupOrFail" /\ pc = "done"
    /\ installPc = "deleteFileGroupOrFail"
    /\ result = "returned"
    /\ op' = "install"
    /\ installPc' = "unregisterInstallation"
    /\ result' = "running"
    /\ UNCHANGED <<pc, faults, groupVars, fileVars, walkVars, regVars,
                   executed, prevInstallPath>>

\* The next call of install(): it returns and install() goes on, or it raises
\* and, install() having no handler, the exception leaves install().
InstallCall ==
    /\ op = "install"
    /\ \E i \in 1..Len(InstallSteps) : installPc = InstallSteps[i]
    /\ executed' = Append(executed, installPc)
    /\ \/ /\ installPc' = AfterStep(installPc)
          /\ result' = IF installPc' = "returned" THEN "returned" ELSE result
       \/ /\ installPc \in CanRaise
          /\ installPc' = "raised"
          /\ result' = "Exception"
    /\ UNCHANGED <<op, pc, faults, groupVars, fileVars, walkVars, regVars,
                   prevInstallPath>>

\* for f in ("nvda_UIAccess.exe", "nvda_noUIAccess.exe"): the first that
\* os.path.isfile finds is copied to nvda.exe; else: raise RuntimeError.
InstallFindExe ==
    /\ op = "install" /\ installPc = "for"
    /\ \/ /\ installPc' = "tryCopyFile"
          /\ UNCHANGED result
       \/ /\ installPc' = "raised"
          /\ result' = "RuntimeError"
    /\ UNCHANGED <<op, pc, faults, groupVars, fileVars, walkVars, regVars,
                   executed, prevInstallPath>>

NextInstall ==
    \/ InstallDeleteGroup
    \/ MkTempDir
    \/ ForNextFile
    \/ ForDone
    \/ BackupCopy
    \/ RemoveOriginal
    \/ RemoveBackup
    \/ RevertOne
    \/ RaiseRetriable
    \/ Finally
    \/ InstallGroupRaised
    \/ InstallGroupReturned
    \/ InstallCall
    \/ InstallFindExe

SpecInstall == InitInstall /\ [][NextInstall]_vars

(* ============================ specification ============================ *)

Init == InitGroup \/ InitRemove \/ InitCopy

Next == NextGroup \/ NextRemove \/ NextCopy

Spec == Init /\ [][Next]_vars

\* The tree walkers together: removeOldLibFiles, removeOldProgramFiles and
\* copyProgramFiles.
SpecWalks == (InitLib \/ InitProg) /\ [][NextLib \/ NextProg]_vars

(* ======================= summaries of the calls ======================== *)

\* RemoveOutcomes lists the ways the steps of tryRemoveFile end on a file.
RemoveOutcomesAgree ==
    (op = "tryRemoveFile" /\ pc = "done" /\ origAtPath # Absent) =>
        [raised |-> result = "RetriableFailure",
         kept |-> atPath # Absent,
         leftover |-> atTempPath # Absent] \in RemoveOutcomes(rebootOK)

\* CopyOutcomes lists the ways the steps of tryCopyFile end.
CopyOutcomesAgree ==
    (op = "tryCopyFile" /\ pc = "done") =>
        [raised |-> IF result = "returned" THEN "none" ELSE result,
         dest |-> IF atPath = SourceContent THEN "new"
                  ELSE IF atPath = Absent THEN "none" ELSE "old"]
            \in CopyOutcomes(origAtPath # Absent)

(* =============================== claims =============================== *)

GroupDone == op = "deleteFileGroupOrFail" /\ pc = "done"

\* The members of the group that existed when the call started.
Existing == { f \in relativeFilepaths : orig[f] # Absent }

AllAbsent == \A f \in relativeFilepaths : installDir[f] = Absent
AllAsBefore == \A f \in Existing : installDir[f] = orig[f]

\* C1: once _deleteFileGroupOrFail has returned or raised, whatever steps
\* failed, either every file of the group is absent or every file of the group
\* that existed before the call is at its path with its content.
C1_AllOrNothing == GroupDone => (AllAbsent \/ AllAsBefore)

\* Exactly one file's deletion failed on every one of the numTries attempts,
\* and no other file-system step failed.
OnlyOneUndeletable ==
    /\ faults = {"remove"}
    /\ \E f \in relativeFilepaths :
        /\ attempts[f] = numTries
        /\ removeFails[f] = numTries
        /\ \A g \in relativeFilepaths \ {f} : removeFails[g] = 0

\* C2: for a group of existing files of which exactly one cannot be deleted in
\* numTries attempts, every other step succeeding, the call raises
\* RetriableFailure with all files at their paths with their content and the
\* temp directory gone.
C2_RollbackOnOneUndeletable ==
    (GroupDone /\ Existing = relativeFilepaths /\ OnlyOneUndeletable)
        => /\ result = "RetriableFailure"
           /\ \A f \in relativeFilepaths : installDir[f] = Content(f)
           /\ ~tempDirExists
           /\ tempDir = EmptyDir

\* C2 witness: a group of at least two files, one deleted and then restored,
\* another undeletable.
C2_Witness ==
    /\ GroupDone /\ Existing = relativeFilepaths /\ OnlyOneUndeletable
    /\ \E g \in relativeFilepaths : attempts[g] = 1 /\ removeFails[g] = 0
    /\ result = "RetriableFailure"

\* C3: for a group of existing files and no failing step, the call returns
\* normally, none of the files exists under installDir and the temp directory
\* is gone.
C3_FullSuccess ==
    (GroupDone /\ Existing = relativeFilepaths /\ faults = {})
        => /\ result = "returned"
           /\ AllAbsent
           /\ ~tempDirExists
           /\ tempDir = EmptyDir

\* C3 witness: a group of at least two existing files deleted without a fault.
C3_Witness ==
    /\ GroupDone /\ Existing = relativeFilepaths /\ faults = {}
    /\ Cardinality(relativeFilepaths) >= 2
    /\ \A f \in relativeFilepaths : attempts[f] = 1

\* C4: a call on a group none of whose paths exists returns normally, makes no
\* backup copy and no delete attempt and leaves the install directory as it
\* was; so does a second call after a first call that returned normally.
C4_SkipNonExistent ==
    /\ (GroupDone /\ Existing = {})
          => /\ result = "returned"
             /\ copies = 0
             /\ attempts = Zero
             /\ installDir = orig
    /\ (GroupDone /\ history # <<>> /\ history[Len(history)].result = "returned")
          => /\ result = "returned"
             /\ copies = 0
             /\ attempts = Zero
             /\ installDir = orig

\* C4 witness: a second call has ended after a first call that deleted files
\* and returned normally.
C4_Witness ==
    /\ GroupDone /\ relativeFilepaths # {} /\ Existing = {}
    /\ Len(history) = 1
    /\ history[1].result = "returned"
    /\ \E f \in relativeFilepaths : history[1].before[f] # Absent
    /\ result = "returned"

\* C5: no path is given more than numTries (numRetries) deletion attempts, no
\* attempt follows a successful one, a deletion that succeeds after k failures
\* has k < n and took exactly k + 1 attempts, and when that is so for every
\* file to delete the operation reports success.
C5_RetryBound ==
    /\ op = "deleteFileGroupOrFail" =>
        /\ \A f \in Files :
            /\ attempts[f] <= numTries
            /\ attempts[f] <= removeFails[f] + 1
            /\ attempts[f] = removeFails[f] + 1 => removeFails[f] < numTries
        /\ (pc = "done" /\ Existing # {}
                /\ \A f \in Existing : attempts[f] = removeFails[f] + 1)
              => result = "returned" /\ AllAbsent
    /\ op = "tryRemoveFile" =>
        /\ deleteAttempts <= numRetries
        /\ deleteAttempts <= deleteFails + 1
        /\ deleteAttempts = deleteFails + 1 => deleteFails < numRetries
        /\ (pc = "done" /\ deleteAttempts = deleteFails + 1)
              => result = "returned" /\ moveFileExCalls = <<>>

\* C5 witness: with a retry limit of 3, a file of a group was deleted on the
\* third attempt after two failures and the call returned normally.
C5_Witness ==
    /\ GroupDone /\ numTries = 3 /\ result = "returned"
    /\ \E f \in Existing : removeFails[f] = 2 /\ attempts[f] = 3

RemoveDone == op = "tryRemoveFile" /\ pc = "done"

\* tryRemoveFile renamed path to the placeholder and every deletion failed.
RenamedNeverDeleted ==
    /\ "replace" \notin faults
    /\ deleteAttempts = numRetries
    /\ deleteFails = numRetries

\* C6 as claimed: with rebootOK, once the rename has succeeded and every
\* deletion has failed, tryRemoveFile returns normally, has registered the
\* placeholder for deletion at reboot exactly once, and nothing is at path.
C6_DeferredFallbackAsClaimed ==
    (RemoveDone /\ rebootOK /\ RenamedNeverDeleted)
        => /\ result = "returned"
           /\ moveFileExCalls = <<"tempPath">>
           /\ atPath = Absent

\* C6 amended: the same when the registration itself succeeds; the
\* registration is tried exactly once on the placeholder either way, and when it
\* fails the call raises RetriableFailure.
C6_DeferredFallback ==
    (RemoveDone /\ rebootOK /\ RenamedNeverDeleted)
        => /\ moveFileExCalls = <<"tempPath">>
           /\ "moveFileEx" \notin faults
                => /\ result = "returned"
                   /\ atPath = Absent
                   /\ atTempPath = origAtPath
           /\ "moveFileEx" \in faults => result = "RetriableFailure"

\* C6 witness: the placeholder was registered for deletion at reboot after
\* numRetries failed deletions.
C6_Witness ==
    /\ RemoveDone /\ rebootOK /\ RenamedNeverDeleted
    /\ numRetries >= 2
    /\ "moveFileEx" \notin faults
    /\ result = "returned"

CopyDone == op = "tryCopyFile" /\ pc = "done"

\* tryCopyFile found a file at destFilePath and its first CopyFileW failed.
FirstCopyFailedOnExisting ==
    /\ op = "tryCopyFile"
    /\ origAtPath # Absent
    /\ "copy" \in faults

\* C7 as claimed: when the destination exists and the first copy fails, the
\* destination is taken away from its path and the copy is tried exactly once
\* more; the call succeeds if that copy succeeds and fails if it fails.
C7_CopyFallbackAsClaimed ==
    (CopyDone /\ FirstCopyFailedOnExisting)
        => /\ copyAttempts = 2
           /\ atTempPath = origAtPath
           /\ result = "returned" <=> "copyAgain" \notin faults

\* C7 amended: the same when the rename of the destination to the placeholder
\* and the registration of the placeholder both succeed; when the rename fails
\* RetriableFailure is raised and when the registration fails its error is
\* raised, in both cases without a second copy; there is never a third copy.
C7_CopyFallback ==
    /\ op = "tryCopyFile" => copyAttempts <= 2
    /\ (CopyDone /\ FirstCopyFailedOnExisting) =>
        /\ ("replace" \notin faults /\ "moveFileEx" \notin faults)
              => /\ copyAttempts = 2
                 /\ atTempPath = origAtPath
                 /\ moveFileExCalls = <<"tempPath">>
                 /\ result = "returned" <=> "copyAgain" \notin faults
                 /\ result = "returned" => atPath = SourceContent
                 /\ result # "returned" => result = "OSError" /\ atPath = Absent
        /\ "replace" \in faults
              => /\ copyAttempts = 1
                 /\ result = "RetriableFailure"
                 /\ atPath = origAtPath
        /\ "moveFileEx" \in faults
              => /\ copyAttempts = 1
                 /\ result = "OSError"

\* C7 witness: the destination was renamed away and registered, and the second
\* copy succeeded.
C7_Witness ==
    /\ CopyDone /\ FirstCopyFailedOnExisting
    /\ copyAttempts = 2
    /\ result = "returned"
    /\ atPath = SourceContent

\* C10 as claimed: on every exit path the temp directory no longer exists,
\* also when its removal meets an OS error.
C10_CleanupAsClaimed == GroupDone => ~tempDirExists

\* C10 amended: on every exit path the removal of the temp directory is tried,
\* and the directory no longer exists unless that removal itself meets an OS
\* error, which is logged and ignored and leaves the directory behind without
\* changing how the call ends.
C10_Cleanup ==
    GroupDone =>
        /\ "rmtree" \notin faults => ~tempDirExists /\ tempDir = EmptyDir
        /\ "rmtree" \in faults => tempDirExists
        /\ result = pending
        /\ result \in {"returned", "RetriableFailure", "OSError"}

\* C10 witness: a call that left with an OSError of the backup copy after a
\* file had been deleted, its temp directory removed.
C10_Witness ==
    /\ GroupDone /\ result = "OSError"
    /\ "rmtree" \notin faults
    /\ \E f \in Existing : installDir[f] = Absent
    /\ ~tempDirExists

\* The directory of the current version under one of lib, lib64, libArm64, or
\* a path under it at any depth.
InCurrentLib(path) ==
    \E i \in 1..Len(TopDirs) :
        \/ path = CurrentLibPath(TopDirs[i])
        \/ IsUnder(path, CurrentLibPath(TopDirs[i]))

\* C8: removeOldLibFiles never hands to os.rmdir or to tryRemoveFile the
\* current version's library directory or a file or directory under it, at
\* any depth.
C8_CurrentVersionUntouched ==
    op = "removeOldLibFiles" =>
        \A path \in rmCalls \cup tryRemoveCalls : ~InCurrentLib(path)

\* The directory names that are userconfig or systemconfig but for case.
ConfigNames == {"userConfig", "SystemConfig"}

\* path is a configuration directory of the root, or lies under one.
InConfig(path) == path # <<>> /\ path[1] \in ConfigNames

\* C9: copyProgramFiles never copies a file from the source root's userConfig
\* or systemConfig subtrees, and the walk of removeOldProgramFiles never
\* removes a file under the install root's userConfig or systemConfig
\* subtrees, whatever the case of the directory names.
C9_ConfigUntouched ==
    /\ op = "copyProgramFiles" =>
          \A path \in copyCalls \cup copied : ~InConfig(path)
    /\ op = "removeOldProgramFiles" =>
          /\ \A path \in tryRemoveCalls \cup rmCalls \cup leftovers \cup warnings :
                ~InConfig(path)
          /\ \A d \in dirs : InConfig(d) => Join(d, "a.pyc") \in files

\* C9 witness: removeOldProgramFiles has returned from a tree that holds both
\* configuration directories with directories nested in them, having handed
\* the stale file of a userConfig directory that is not the root's to
\* tryRemoveFile.
C9_Witness ==
    /\ op = "removeOldProgramFiles" /\ pc = "done" /\ result = "returned"
    /\ <<"userConfig", "userConfig">> \in dirs
    /\ <<"SystemConfig", "userConfig">> \in dirs
    /\ <<"doc", "userConfig", "a.pyc">> \in tryRemoveCalls

\* The call ran _revertGroupDelete and at least one os.replace in it failed.
RestoreFailed == "restore" \in faults

\* C11: a call of _deleteFileGroupOrFail in whose rollback the restore of an
\* already deleted file failed does not end with the result that a rollback
\* which restored every file ends with, the plain RetriableFailure.
C11_InconsistentRollbackDistinguishable ==
    (GroupDone /\ RestoreFailed) => result # "RetriableFailure"

\* The place of a function in the order of install()'s statements.
Rank(step) ==
    IF step = "deleteFileGroupOrFail" THEN 0
    ELSE CHOOSE i \in 1..Len(InstallSteps) : InstallSteps[i] = step

\* install() has called step.
Executed(step) == \E i \in 1..Len(executed) : executed[i] = step

\* install() called a before b.
ExecutedBefore(a, b) ==
    \E i, j \in 1..Len(executed) : i < j /\ executed[i] = a /\ executed[j] = b

\* C12: in install() every call is preceded by the call of
\* _deleteFileGroupOrFail; if that call raised, install() has ended with its
\* exception and has called nothing else; if it returned, the calls made follow
\* the order of the statements, removeOldProgramFiles before copyProgramFiles
\* before removeOldLibFiles.
C12_InstallOrdering ==
    installPc # "none" =>
        /\ executed # <<>> => executed[1] = "deleteFileGroupOrFail"
        /\ \A i, j \in 1..Len(executed) :
              i < j => Rank(executed[i]) < Rank(executed[j])
        /\ (op = "install" /\ pending \in {"RetriableFailure", "OSError"})
              => /\ installPc = "raised"
                 /\ result = pending
                 /\ executed = <<"deleteFileGroupOrFail">>
        /\ Executed("copyProgramFiles")
              => ExecutedBefore("removeOldProgramFiles", "copyProgramFiles")
        /\ Executed("removeOldLibFiles")
              => ExecutedBefore("copyProgramFiles", "removeOldLibFiles")

\* C12 witness: install() has returned after the group deletion deleted at
\* least two executables and every later call was made.
C12_Witness ==
    /\ op = "install" /\ installPc = "returned"
    /\ prevInstallPath
    /\ Cardinality({ f \in Files : orig[f] # Absent /\ installDir[f] = Absent }) >= 2
    /\ Len(executed) = Len(InstallSteps) + 1

\* C13: when tryRemoveFile has raised RetriableFailure after its first rename
\* succeeded, every delete attempt failed and the deletion at reboot was not
\* allowed or could not be registered; if the rename back succeeded the file
\* is at path with the content it had and nothing is at tempPath; when the
\* rename back failed the call has raised RetriableFailure all the same.
C13_RenameBack ==
    /\ (RemoveDone /\ result = "RetriableFailure" /\ "replace" \notin faults)
          => /\ deleteFails = numRetries
             /\ ~rebootOK \/ "moveFileEx" \in faults
             /\ "replaceBack" \notin faults
                   => /\ origAtPath # Absent
                      /\ atPath = origAtPath
                      /\ atTempPath = Absent
    /\ (RemoveDone /\ "replaceBack" \in faults) => result = "RetriableFailure"

\* C13 witness: the deletion at reboot could not be registered and the file
\* was renamed back.
C13_Witness ==
    /\ RemoveDone /\ result = "RetriableFailure"
    /\ rebootOK /\ "moveFileEx" \in faults
    /\ "replaceBack" \notin faults
    /\ atPath = Content(1)
    /\ atTempPath = Absent

\* C14: when the first rename of tryRemoveFile failed, the call has ended at
\* once with RetriableFailure: no deletion was tried, no sleep was made,
\* moveFileEx was not called, and what was at path is still there.
C14_InitialRenameFailure ==
    (op = "tryRemoveFile" /\ "replace" \in faults)
        => /\ pc = "done"
           /\ result = "RetriableFailure"
           /\ deleteAttempts = 0
           /\ sleeps = 0
           /\ moveFileExCalls = <<>>
           /\ atPath = origAtPath

\* C14 witness: the rename of an existing file failed in a call with
\* rebootOK = True.
C14_Witness ==
    /\ RemoveDone /\ "replace" \in faults
    /\ rebootOK
    /\ origAtPath = Content(1)
    /\ atPath = Content(1)

\* A file that lies in a subtree removeOldProgramFiles leaves out at the root.
InRemoveExcluded(path) == Len(path) >= 2 /\ RemoveExcluded(path[1])

\* The last component of a path.
Basename(path) == path[Len(path)]

\* C15: removeOldLibFiles always returns normally, having walked every top
\* directory to the end: every file outside the current version's directory
\* that is still there was handed to tryRemoveFile and every directory outside
\* it that is still there to os.rmdir, each with its failure logged.  The walk
\* of removeOldProgramFiles, once begun, likewise ends with a normal return:
\* every file with a stale extension outside the subtrees left out that is
\* still there was handed to tryRemoveFile and its failure logged.
C15_PrunerBestEffort ==
    /\ op = "removeOldLibFiles" => result \in {"running", "returned"}
    /\ (op = "removeOldLibFiles" /\ pc = "done")
          => /\ result = "returned"
             /\ walkTodo = <<>> /\ topDirsTodo = <<>>
             /\ \A f \in files :
                   ~InCurrentLib(f) => f \in tryRemoveCalls /\ f \in warnings
             /\ \A d \in dirs :
                   (Len(d) >= 2 /\ ~InCurrentLib(d)) => d \in rmCalls /\ d \in warnings
    /\ (op = "removeOldProgramFiles" /\ pc \in {"walk", "files"})
          => result = "running"
    /\ (op = "removeOldProgramFiles" /\ pc = "done" /\ "voices" \notin faults)
          => /\ result = "returned"
             /\ walkTodo = <<>>
             /\ \A f \in files :
                   (IsStale(Basename(f)) /\ ~InRemoveExcluded(f))
                      => f \in tryRemoveCalls /\ f \in warnings

\* C15 witness: removeOldLibFiles has returned; the file of the old version's
\* nested directory, reached first, could not be removed and is logged, the
\* os.rmdir of that directory failed and is logged, and the old version's own
\* file, reached afterwards, is removed.
C15_Witness ==
    /\ op = "removeOldLibFiles" /\ pc = "done"
    /\ <<"lib", OldVersion, "sub", "x.dll">> \in files \cap warnings
    /\ <<"lib", OldVersion, "sub">> \in dirs \cap warnings
    /\ <<"lib", OldVersion, "x.dll">> \in tryRemoveCalls \ files

\* The files of the source tree that copyProgramFiles is to copy: all but
\* those under the root's configuration directories and the root's nvda.exe.
ToCopy ==
    { f \in files : ~InConfig(f) /\ ~(Len(f) = 1 /\ Lower(f[1]) = "nvda.exe") }

CopyProgramFilesDone == op = "copyProgramFiles" /\ pc = "done"

Deleted == { f \in Files : orig[f] # Absent /\ installDir[f] = Absent }

C18_RollbackOnOtherFailure ==
    (GroupDone /\ result = "OSError") => AllAsBefore

RegDone == op = "deleteKeyAndSubkeys" /\ pc = "done"

\* C19: when _deleteKeyAndSubkeys has ended, neither the key it was called on
\* nor any key below it exists, and if the key existed the call has returned
\* normally.
C19_DeletesHierarchy ==
    RegDone => /\ keys = {}
               /\ deletedKeys # <<>> => result = "returned"

\* C20: when tryCopyFile has raised OSError or RetriableFailure for a
\* destination that held a file when it was called, destFilePath holds that
\* file or the new one.
C20_FailedCopyKeepsDestination ==
    (CopyDone /\ result # "returned" /\ origAtPath # Absent)
        => atPath \in {origAtPath, SourceContent}

====
